---- MODULE Spec2Model ----
(***************************************************************************)
(* Model of rascaline-torch/src/autograd.cpp: RascalineAutograd::forward   *)
(* and RascalineAutograd::backward, the custom autograd bridge between the *)
(* descriptor calculator and the positions / cell tensors.                 *)
(*                                                                         *)
(* Tensors are flat row-major sequences of integers with a `sizes` list;   *)
(* every index of the C++ code is 0-based and is kept 0-based here (At).   *)
(* Objects that matter for ownership carry an identity (Obj) and the set   *)
(* of objects they hold a strong reference to.                             *)
(***************************************************************************)
EXTENDS Integers, Sequences, FiniteSets, TLC

VARIABLES
    pc,                 \* "start" | "forward_done" | "backward_done"
    all_positions,      \* forward argument: [requires_grad, sizes]
    all_cells,          \* forward argument: [requires_grad, sizes]
    systems,            \* forward argument: sequence of [size, native]
    forward_gradients,  \* forward argument: sequence of channel names
    calculator,         \* forward argument: the calculator (its configuration)
    calls,              \* calculator.compute_impl invocations: sequence of options
    descriptor,         \* the block collection compute_impl returned
    ctx,                \* the AutogradContext of this forward/backward pair
    tensor_map,         \* the caller's output handle (*tensor_map)
    values_by_block,    \* forward's return value
    fwd,                \* how forward ended
    grad_outputs,       \* backward argument: one adjoint per block
    bwd                 \* how backward ended and what it returned

vars == << pc, all_positions, all_cells, systems, forward_gradients, calculator,
           calls, descriptor, ctx, tensor_map, values_by_block, fwd,
           grad_outputs, bwd >>

---------------------------------------------------------------------------
(* Bounds of the model *)

MaxSystems == 2

MaxAtoms == 2

MaxBlocks == 2

MaxRequested == 2

---------------------------------------------------------------------------
(* Generic helpers *)

Range(s) == { s[k] : k \in DOMAIN s }

SeqsUpTo(S, n) == UNION { [1..k -> S] : k \in 0..n }

RECURSIVE SeqSum(_)
SeqSum(s) == IF s = << >> THEN 0 ELSE Head(s) + SeqSum(Tail(s))

RECURSIVE SeqProduct(_)
SeqProduct(s) == IF s = << >> THEN 1 ELSE Head(s) * SeqProduct(Tail(s))

RECURSIVE Flatten(_)
Flatten(ss) == IF ss = << >> THEN << >> ELSE Head(ss) \o Flatten(Tail(ss))

Reverse(s) == [k \in 1..Len(s) |-> s[Len(s) + 1 - k]]

\* identity of a heap object
Obj(kind, i, p) == [kind |-> kind, i |-> i, p |-> p]

Channels == {"positions", "cell"}

---------------------------------------------------------------------------
(* The external calculator and its block collection *)

\* number of atoms of all systems
TotalAtoms(sys) == SeqSum([k \in 1..Len(sys) |-> sys[k].size])

\* one sample per atom: (structure, atom) pairs in structure order
AtomPairs(sys) ==
    Flatten([s \in 1..Len(sys) |-> [a \in 1..sys[s].size |-> << s - 1, a - 1 >>]])

\* the values of the hand-chosen Jacobians: distinct along every axis
Pattern(seed, k) == (((seed + 2) * k + seed) % 5) - 2

LabelRow(names, pair) ==
    [c \in 1..Len(names) |-> IF names[c] = "structure" THEN pair[1] ELSE pair[2]]

BlockSamples(calc, sys, b) ==
    LET names == IF calc.defect = "samples_differ" /\ b > 0 /\ b = calc.nblocks - 1
                 THEN Reverse(calc.names) \o << "extra" >>
                 ELSE calc.names
        pairs == AtomPairs(sys)
        rows  == [i \in 1..Len(pairs) |->
                    IF calc.defect = "structure_out_of_range" /\ b = calc.nblocks - 1 /\ i = 1
                    THEN LabelRow(names, << Len(sys), pairs[i][2] >>)
                    ELSE LabelRow(names, pairs[i])]
    IN  [names |-> names, values |-> rows]

\* rows (sample, structure, atom) of a positions gradient
PositionsRows(calc, sys, b) ==
    LET pairs == AtomPairs(sys)
        self  == [i \in 1..Len(pairs) |-> << i - 1, pairs[i][1], pairs[i][2] >>]
        all   == Flatten([i \in 1..Len(pairs) |->
                    [a \in 1..sys[pairs[i][1] + 1].size |-> << i - 1, pairs[i][1], a - 1 >>]])
        rows  == CASE calc.rows = "pairs"    -> all
                   [] calc.rows = "reversed" -> Reverse(self)
                   [] OTHER                  -> SubSeq(self, 1, 1)
        last  == b = calc.nblocks - 1 /\ rows # << >>
    IN  CASE last /\ calc.defect = "sample_out_of_range" ->
                [rows EXCEPT ![1] = << Len(pairs), @[2], @[3] >>]
          [] last /\ calc.defect = "structure_out_of_range" ->
                [rows EXCEPT ![1] = << @[1], Len(sys), @[3] >>]
          [] last /\ calc.defect = "atom_out_of_range" ->
                [rows EXCEPT ![Len(rows)] = << @[1], Len(sys) - 1, TotalAtoms(sys) >>]
          [] last /\ calc.defect = "positions_names_count" ->
                [r \in 1..Len(rows) |-> << rows[r][1], rows[r][2] >>]
          [] OTHER -> rows

\* rows (sample) of a cell gradient
CellRows(calc, sys, b) ==
    LET n    == Len(AtomPairs(sys))
        self == [i \in 1..n |-> << i - 1 >>]
        rows == CASE calc.rows = "pairs"    -> self
                  [] calc.rows = "reversed" -> Reverse(self)
                  [] OTHER                  -> SubSeq(self, 1, 1)
        last == b = calc.nblocks - 1 /\ rows # << >>
    IN  CASE last /\ calc.defect = "sample_out_of_range" ->
                [rows EXCEPT ![1] = << n >>]
          [] last /\ calc.defect = "cell_names" ->
                [r \in 1..Len(rows) |-> << rows[r][1], 0 >>]
          [] OTHER -> rows

GradientNames(calc, b, parameter) ==
    LET last == b = calc.nblocks - 1
    IN  CASE parameter = "positions" /\ last /\ calc.defect = "positions_names_order" ->
                << "sample", "atom", "structure" >>
          [] parameter = "positions" /\ last /\ calc.defect = "positions_names_count" ->
                << "sample", "structure" >>
          [] parameter = "positions" -> << "sample", "structure", "atom" >>
          [] parameter = "cell" /\ last /\ calc.defect = "cell_names" ->
                << "sample", "structure" >>
          [] OTHER -> << "sample" >>

\* the gradient sub-block of block b with respect to `parameter`
GradientBlock(calc, sys, b, parameter) ==
    LET rows  == IF parameter = "positions" THEN PositionsRows(calc, sys, b)
                                            ELSE CellRows(calc, sys, b)
        axes  == IF parameter = "positions" THEN 3 ELSE 9
        short == IF calc.defect = "jacobian_short" /\ b = calc.nblocks - 1 /\ rows # << >>
                 THEN 1 ELSE 0
        n     == (Len(rows) - short) * axes * SeqProduct(calc.tail)
        seed  == calc.seed + b + (IF parameter = "cell" THEN 1 ELSE 0)
    IN  [ id      |-> Obj("gradient", b, parameter),
          samples |-> [names |-> GradientNames(calc, b, parameter), values |-> rows],
          values  |-> [k \in 1..n |-> Pattern(seed, k - 1)],
          refs    |-> { Obj("gradient_values", b, parameter),
                        Obj("gradient_samples", b, parameter),
                        Obj("components", b, parameter),
                        Obj("properties", b, "") } ]

\* CalculatorHolder::compute_impl: one block per key, each with the gradient
\* sub-blocks named in options.gradients
compute_impl(calc, sys, options) ==
    [ id     |-> Obj("descriptor", 0, ""),
      blocks |-> [k \in 1..calc.nblocks |->
                   [ id        |-> Obj("block", k - 1, ""),
                     values    |-> Obj("values", k - 1, ""),
                     sizes     |-> << Len(AtomPairs(sys)) >> \o calc.tail,
                     samples   |-> BlockSamples(calc, sys, k - 1),
                     gradients |-> [p \in Range(options.gradients) |->
                                      GradientBlock(calc, sys, k - 1, p)] ]] ]

---------------------------------------------------------------------------
(* forward *)

NoMap == [id |-> Obj("null", 0, ""), blocks |-> << >>]

NoContext ==
    [ saved_variables |-> << >>, keys |-> {}, structures_start |-> << >>,
      positions_gradients |-> << >>, cell_gradients |-> << >>, samples |-> << >> ]

\* line 30
contains(haystack, needle) == \E k \in DOMAIN haystack : haystack[k] = needle

\* lines 69-73: the first unrecognised name, if any
InvalidParameters(fg) ==
    { k \in DOMAIN fg : fg[k] # "positions" /\ fg[k] # "cell" }

\* lines 75-81, with one push per reason instead of one per channel
gradients_to_compute_twice(fg, positions, cells) ==
    (IF contains(fg, "positions") THEN << "positions" >> ELSE << >>)
    \o (IF positions.requires_grad THEN << "positions" >> ELSE << >>)
    \o (IF contains(fg, "cell") THEN << "cell" >> ELSE << >>)
    \o (IF cells.requires_grad THEN << "cell" >> ELSE << >>)

\* lines 75-81
gradients_to_compute(fg, positions, cells) ==
    (IF contains(fg, "positions") \/ positions.requires_grad
        THEN << "positions" >> ELSE << >>)
    \o (IF contains(fg, "cell") \/ cells.requires_grad THEN << "cell" >> ELSE << >>)

\* lines 84-89
all_forward_gradients(fg, gradients) ==
    \A k \in DOMAIN gradients : contains(fg, gradients[k])

\* lines 18-28. systems[0] of an empty vector is read before the loop: the
\* value is whatever lies there, or the read faults.
all_systems_use_native(sys) ==
    IF sys = << >>
    THEN { [status |-> "crash", result |-> FALSE] }
         \cup { [status |-> "ok", result |-> r] : r \in BOOLEAN }
    ELSE IF \E k \in DOMAIN sys : sys[k].native # sys[1].native
         THEN { [status |-> "ValueError", result |-> FALSE] }
         ELSE { [status |-> "ok", result |-> sys[1].native] }

\* lines 96-101
RECURSIVE structures_start_from(_, _, _)
structures_start_from(sys, k, current_start) ==
    IF k > Len(sys) THEN << >>
    ELSE << current_start >> \o structures_start_from(sys, k + 1, current_start + sys[k].size)

structures_start(sys) == structures_start_from(sys, 1, 0)

\* TensorBlockHolder::gradient(parameter): a holder of the gradient that
\* keeps its parent block alive
gradient_view(block, parameter) ==
    [ id      |-> Obj("gradient_view", block.id.i, parameter),
      samples |-> block.gradients[parameter].samples,
      values  |-> block.gradients[parameter].values,
      refs    |-> block.gradients[parameter].refs \cup { block.id } ]

\* lines 34-52: a fresh holder per block, made of the gradient's values,
\* samples, components and properties only
extract_gradient_blocks_reversed(tensor, parameter) ==
    [k \in 1..Len(tensor.blocks) |->
        LET gradient == gradient_view(tensor.blocks[Len(tensor.blocks) + 1 - k], parameter)
        IN  [ id      |-> Obj("saved_gradient", k - 1, parameter),
              samples |-> gradient.samples,
              values  |-> gradient.values,
              refs    |-> { Obj("gradient_values", k - 1, parameter),
                            Obj("gradient_samples", k - 1, parameter),
                            Obj("components", k - 1, parameter),
                            Obj("properties", k - 1, "") } ]]

extract_gradient_blocks_views(tensor, parameter) ==
    [k \in 1..Len(tensor.blocks) |-> gradient_view(tensor.blocks[k], parameter)]

extract_gradient_blocks(tensor, parameter) ==
    [k \in 1..Len(tensor.blocks) |->
        LET gradient == gradient_view(tensor.blocks[k], parameter)
        IN  [ id      |-> Obj("saved_gradient", k - 1, parameter),
              samples |-> gradient.samples,
              values  |-> gradient.values,
              refs    |-> { Obj("gradient_values", k - 1, parameter),
                            Obj("gradient_samples", k - 1, parameter),
                            Obj("components", k - 1, parameter),
                            Obj("properties", k - 1, "") } ]]

\* lines 114-147
save_for_backward(positions, cells, sys, desc, gradients) ==
    [ saved_variables     |-> << positions, cells >>,
      keys                |-> {"structures_start"}
                              \cup (IF positions.requires_grad
                                    THEN {"positions_gradients"} ELSE {})
                              \cup (IF cells.requires_grad
                                    THEN {"cell_gradients", "samples"} ELSE {}),
      structures_start    |-> structures_start(sys),
      positions_gradients |-> IF positions.requires_grad
                              THEN extract_gradient_blocks(desc, "positions") ELSE << >>,
      cell_gradients      |-> IF cells.requires_grad
                              THEN extract_gradient_blocks(desc, "cell") ELSE << >>,
      samples             |-> IF cells.requires_grad
                              THEN [k \in 1..Len(desc.blocks) |-> desc.blocks[k].samples]
                              ELSE << >> ]

\* lines 153-174: the filtered copy of the calculator's output
new_tensor_map(desc, fg) ==
    [ id     |-> Obj("new_map", 0, ""),
      blocks |-> [k \in 1..Len(desc.blocks) |->
                   [ id        |-> Obj("new_block", k - 1, ""),
                     values    |-> desc.blocks[k].values,
                     sizes     |-> desc.blocks[k].sizes,
                     samples   |-> desc.blocks[k].samples,
                     gradients |-> [p \in Range(fg) |-> desc.blocks[k].gradients[p]] ]] ]

\* lines 150-175
returned_tensor_map_unfiltered(desc, fg, gradients) == desc

returned_tensor_map(desc, fg, gradients) ==
    IF all_forward_gradients(fg, gradients) THEN desc ELSE new_tensor_map(desc, fg)

\* TensorBlockHolder::add_gradient is called once per entry of
\* forward_gradients (line 165); a second call with the same name either
\* is refused by the block or replaces the first
add_gradient_outcomes(desc, fg, gradients) ==
    IF ~all_forward_gradients(fg, gradients) /\ desc.blocks # << >>
       /\ \E j, k \in DOMAIN fg : j # k /\ fg[j] = fg[k]
    THEN {"ok", "Error"} ELSE {"ok"}

Failed(status, what) == [status |-> status, what |-> what]

\* lines 96-177: the calculation, the saved data and the returned collection,
\* once the options are known
forward_after_options(positions, cells, calc, sys, fg, handle, native) ==
    LET gradients == gradients_to_compute(fg, positions, cells)
        options   == [gradients |-> gradients, use_native_system |-> native]
        desc      == compute_impl(calc, sys, options)
        saved     == save_for_backward(positions, cells, sys, desc, gradients)
    IN  { [ calls           |-> << options >>,
            descriptor      |-> desc,
            ctx             |-> saved,
            tensor_map      |-> IF o = "ok" THEN returned_tensor_map(desc, fg, gradients)
                                ELSE handle,
            values_by_block |-> IF o = "ok"
                                THEN [k \in 1..Len(desc.blocks) |-> desc.blocks[k].values]
                                ELSE << >>,
            fwd             |-> IF o = "ok" THEN Failed("returned", "")
                                ELSE Failed("Error", "add_gradient") ]
          : o \in add_gradient_outcomes(desc, fg, gradients) }

\* a forward call that throws before line 103
forward_throws(handle, status, what) ==
    [ calls |-> << >>, descriptor |-> NoMap, ctx |-> NoContext, tensor_map |-> handle,
      values_by_block |-> << >>, fwd |-> Failed(status, what) ]

\* forward with the neighbor-list check made after the calculation
forward_late_native_check(positions, cells, calc, sys, fg, handle) ==
    IF InvalidParameters(fg) # {}
    THEN { forward_throws(handle, "ValueError", "invalid parameter in forward gradients") }
    ELSE UNION { IF n.status = "ok"
                 THEN forward_after_options(positions, cells, calc, sys, fg, handle, n.result)
                 ELSE { [r EXCEPT !.fwd = Failed(n.status, "all_systems_use_native"),
                                  !.values_by_block = << >>]
                        : r \in forward_after_options(positions, cells, calc, sys, fg,
                                                      handle, FALSE) }
                 : n \in all_systems_use_native(sys) }

\* lines 54-178
forward(positions, cells, calc, sys, fg, handle) ==
    IF InvalidParameters(fg) # {}
    THEN { forward_throws(handle, "ValueError", "invalid parameter in forward gradients") }
    ELSE UNION { IF n.status = "ok"
                 THEN forward_after_options(positions, cells, calc, sys, fg, handle, n.result)
                 ELSE { forward_throws(handle, n.status, "all_systems_use_native") }
                 : n \in all_systems_use_native(sys) }

---------------------------------------------------------------------------
(* backward *)

\* what a read outside of an array may yield when it does not fault
Garbage == {0, 1}

InBounds(data, k) == k >= 0 /\ k < Len(data)

\* data_ptr[k]
At(data, k, garbage) == IF InBounds(data, k) THEN data[k + 1] ELSE garbage

NoGradient == [defined |-> FALSE, sizes |-> << >>, data |-> << >>]

\* torch::zeros_like
zeros_like(tensor) ==
    [ defined |-> TRUE, sizes |-> tensor.sizes,
      data |-> [k \in 1..SeqProduct(tensor.sizes) |-> 0] ]

\* lines 244-247 and 323-326
dot_dimensions(grad_output) == SeqProduct(Tail(grad_output.sizes))

\* line 256, without the start of the structure
global_atom_local(starts, structure_i, atom_i, garbage) == atom_i

\* line 256
global_atom(starts, structure_i, atom_i, garbage) ==
    At(starts, structure_i, garbage) + atom_i

\* lines 259-264
dA_dr(forward_values, grad_output, grad_sample_i, sample_i, direction, garbage) ==
    LET D == dot_dimensions(grad_output)
    IN  SeqSum([i \in 1..D |->
            At(forward_values, (grad_sample_i * 3 + direction) * D + (i - 1), garbage)
            * At(grad_output.data, sample_i * D + (i - 1), garbage)])

\* line 265: the accumulation; a write outside of the tensor lands elsewhere
accumulate(data, k, value) ==
    IF InBounds(data, k) THEN [data EXCEPT ![k + 1] = @ + value] ELSE data

\* lines 258-266, directions `direction`..2 of one gradient sample
RECURSIVE positions_directions(_, _, _, _, _, _, _)
positions_directions(data, gradient, grad_output, starts, grad_sample_i, direction, garbage) ==
    IF direction >= 3 THEN data
    ELSE LET row    == gradient.samples.values[grad_sample_i + 1]
             atom_g == global_atom(starts, row[2], row[3], garbage)
             value  == dA_dr(gradient.values, grad_output, grad_sample_i, row[1],
                             direction, garbage)
         IN  positions_directions(accumulate(data, atom_g * 3 + direction, value),
                                  gradient, grad_output, starts, grad_sample_i,
                                  direction + 1, garbage)

\* whether lines 252-265 leave the arrays for this gradient sample
positions_row_undefined(data, gradient, grad_output, starts, grad_sample_i) ==
    LET row == gradient.samples.values[grad_sample_i + 1]
        D   == dot_dimensions(grad_output)
    IN  \/ ~InBounds(starts, row[2])
        \/ ~InBounds(data, global_atom(starts, row[2], row[3], 0) * 3)
        \/ ~InBounds(data, global_atom(starts, row[2], row[3], 0) * 3 + 2)
        \/ ~InBounds(gradient.values, (grad_sample_i * 3 + 2) * D + D - 1)
        \/ ~InBounds(grad_output.data, row[1] * D)
        \/ ~InBounds(grad_output.data, row[1] * D + D - 1)

\* lines 251-267
RECURSIVE positions_samples(_, _, _, _, _, _)
positions_samples(acc, gradient, grad_output, starts, grad_sample_i, garbage) ==
    IF grad_sample_i >= Len(gradient.samples.values) THEN acc
    ELSE positions_samples(
            [ acc EXCEPT
                !.ub = @ \/ positions_row_undefined(acc.data, gradient, grad_output,
                                                    starts, grad_sample_i),
                !.data = positions_directions(@, gradient, grad_output, starts,
                                              grad_sample_i, 0, garbage) ],
            gradient, grad_output, starts, grad_sample_i + 1, garbage)

\* lines 226-229
positions_names_ok(names) ==
    /\ Len(names) = 3
    /\ names[1] = "sample"
    /\ names[2] = "structure"
    /\ names[3] = "atom"

\* lines 220-268
RECURSIVE positions_blocks(_, _, _, _, _, _)
positions_blocks(acc, gradients, grads, starts, block_i, garbage) ==
    IF block_i >= Len(grads) \/ acc.err # "" THEN acc
    ELSE LET gradient == gradients[block_i + 1]
         IN  IF ~positions_names_ok(gradient.samples.names)
             THEN [acc EXCEPT !.err = "runtime_error", !.what = "positions samples names"]
             ELSE positions_blocks(
                    positions_samples(acc, gradient, grads[block_i + 1], starts, 0, garbage),
                    gradients, grads, starts, block_i + 1, garbage)

Accumulator(tensor) == [err |-> "", what |-> "", ub |-> FALSE, data |-> tensor.data]

\* lines 212-269
positions_backward(context, grads, garbage) ==
    IF Len(context.positions_gradients) # Len(grads)
    THEN [Accumulator(NoGradient) EXCEPT !.err = "runtime_error",
                                         !.what = "positions_gradients.size() == n_blocks"]
    ELSE positions_blocks(Accumulator(zeros_like(context.saved_variables[1])),
                          context.positions_gradients, grads,
                          context.structures_start, 0, garbage)

\* lines 285-289: the position of "structure", or names.size() when absent
find_structure_or_first(names) ==
    IF \E k \in DOMAIN names : names[k] = "structure"
    THEN (CHOOSE k \in DOMAIN names :
            names[k] = "structure" /\ \A j \in 1..(k - 1) : names[j] # "structure") - 1
    ELSE 0

find_structure(names) ==
    IF \E k \in DOMAIN names : names[k] = "structure"
    THEN (CHOOSE k \in DOMAIN names :
            names[k] = "structure" /\ \A j \in 1..(k - 1) : names[j] # "structure") - 1
    ELSE Len(names)

\* line 339, with the two directions exchanged
cell_jacobian_id_transposed(grad_sample_i, direction_1, direction_2) ==
    (grad_sample_i * 3 + direction_1) * 3 + direction_2

\* line 339
cell_jacobian_id(grad_sample_i, direction_1, direction_2) ==
    (grad_sample_i * 3 + direction_2) * 3 + direction_1

\* lines 337-343
dA_dH(forward_values, grad_output, grad_sample_i, sample_i, direction_1, direction_2, garbage) ==
    LET D  == dot_dimensions(grad_output)
        id == cell_jacobian_id(grad_sample_i, direction_1, direction_2)
    IN  SeqSum([i \in 1..D |->
            At(forward_values, id * D + (i - 1), garbage)
            * At(grad_output.data, sample_i * D + (i - 1), garbage)])

\* lines 335-346, entries `k`..8 of the 3x3 matrix of one gradient sample,
\* k = direction_1 * 3 + direction_2
RECURSIVE cell_directions(_, _, _, _, _, _, _, _)
cell_directions(data, gradient, grad_output, grad_sample_i, sample_i, structure_i, k, garbage) ==
    IF k >= 9 THEN data
    ELSE LET direction_1 == k \div 3
             direction_2 == k % 3
             value == dA_dH(gradient.values, grad_output, grad_sample_i, sample_i,
                            direction_1, direction_2, garbage)
         IN  cell_directions(
                accumulate(data, (structure_i * 3 + direction_1) * 3 + direction_2, value),
                gradient, grad_output, grad_sample_i, sample_i, structure_i, k + 1, garbage)

\* lines 330-347; `structures` is the structure column of the block's samples
RECURSIVE cell_samples(_, _, _, _, _, _)
cell_samples(acc, gradient, grad_output, structures, grad_sample_i, garbage) ==
    IF grad_sample_i >= Len(gradient.samples.values) \/ acc.err # "" THEN acc
    ELSE LET sample_i == gradient.samples.values[grad_sample_i + 1][1]
             D        == dot_dimensions(grad_output)
         IN  IF ~InBounds(structures, sample_i)
             THEN [acc EXCEPT !.err = "IndexError", !.what = "structures[sample_i]"]
             ELSE cell_samples(
                    [ acc EXCEPT
                        !.ub = \/ @
                               \/ ~InBounds(acc.data, structures[sample_i + 1] * 9)
                               \/ ~InBounds(acc.data, structures[sample_i + 1] * 9 + 8)
                               \/ ~InBounds(gradient.values, (grad_sample_i * 9 + 8) * D + D - 1)
                               \/ ~InBounds(grad_output.data, sample_i * D + D - 1),
                        !.data = cell_directions(@, gradient, grad_output, grad_sample_i,
                                                 sample_i, structures[sample_i + 1], 0,
                                                 garbage) ],
                    gradient, grad_output, structures, grad_sample_i + 1, garbage)

\* lines 297-348
RECURSIVE cell_blocks(_, _, _, _, _, _, _)
cell_blocks(acc, gradients, all_samples, grads, structure_dimension, block_i, garbage) ==
    IF block_i >= Len(grads) \/ acc.err # "" THEN acc
    ELSE LET gradient      == gradients[block_i + 1]
             block_samples == all_samples[block_i + 1]
             structures    == [r \in 1..Len(block_samples.values) |->
                                 block_samples.values[r][structure_dimension + 1]]
         IN  IF all_samples[1].names # block_samples.names
             THEN [acc EXCEPT !.err = "runtime_error",
                              !.what = "first_sample_names == block_samples->names()"]
             ELSE IF Len(gradient.samples.names) # 1
                     \/ gradient.samples.names[1] # "sample"
             THEN [acc EXCEPT !.err = "runtime_error", !.what = "cell samples names"]
             ELSE cell_blocks(
                    cell_samples(acc, gradient, grads[block_i + 1], structures, 0, garbage),
                    gradients, all_samples, grads, structure_dimension, block_i + 1, garbage)

\* lines 272-349
cell_backward(context, grads, garbage) ==
    IF Len(context.cell_gradients) # Len(grads)
    THEN [Accumulator(NoGradient) EXCEPT !.err = "runtime_error",
                                         !.what = "cell_gradients.size() == n_blocks"]
    ELSE IF Len(context.samples) # Len(grads)
    THEN [Accumulator(NoGradient) EXCEPT !.err = "runtime_error",
                                         !.what = "all_samples.size() == n_blocks"]
    ELSE LET first_sample_names  == context.samples[1].names
             structure_dimension == find_structure(first_sample_names)
         IN  IF structure_dimension = Len(first_sample_names)
             THEN [Accumulator(NoGradient) EXCEPT
                        !.err = "ValueError",
                        !.what = "could not find 'structure' in the samples"]
             ELSE cell_blocks(Accumulator(zeros_like(context.saved_variables[2])),
                              context.cell_gradients, context.samples, grads,
                              structure_dimension, 0, garbage)

Returned(positions_grad, cell_grad) ==
    [ status |-> "returned", what |-> "",
      slots  |-> << positions_grad, cell_grad,
                    NoGradient, NoGradient, NoGradient, NoGradient >> ]

Thrown(status, what) == [status |-> status, what |-> what, slots |-> << >>]

\* lines 198-209, with the gradients allocated before the early return
early_return_allocated(positions, cells) ==
    Returned(IF positions.requires_grad THEN zeros_like(positions) ELSE NoGradient,
             IF cells.requires_grad THEN zeros_like(cells) ELSE NoGradient)

\* lines 198-209
early_return(positions, cells) == Returned(NoGradient, NoGradient)

Skipped == Accumulator(NoGradient)

\* lines 211-358 when every read outside of an array yields `garbage`
backward_run(context, grads, garbage) ==
    LET positions == context.saved_variables[1]
        cells     == context.saved_variables[2]
        P == IF positions.requires_grad
             THEN positions_backward(context, grads, garbage) ELSE Skipped
        C == IF cells.requires_grad /\ P.err = ""
             THEN cell_backward(context, grads, garbage) ELSE Skipped
        result ==
            IF P.err # "" THEN Thrown(P.err, P.what)
            ELSE IF C.err # "" THEN Thrown(C.err, C.what)
            ELSE Returned(
                    IF positions.requires_grad
                    THEN [defined |-> TRUE, sizes |-> positions.sizes, data |-> P.data]
                    ELSE NoGradient,
                    IF cells.requires_grad
                    THEN [defined |-> TRUE, sizes |-> cells.sizes, data |-> C.data]
                    ELSE NoGradient)
    IN  [ub |-> P.ub \/ C.ub, result |-> result]

\* lines 180-359: every way the call can end
backward(context, grads) ==
    IF Len(grads) = 0
    THEN { early_return(context.saved_variables[1], context.saved_variables[2]) }
    ELSE LET run == backward_run(context, grads, 0)
         IN  IF ~run.ub THEN { run.result }
             ELSE { backward_run(context, grads, g).result : g \in Garbage }
                  \cup { Thrown("crash", "access outside of an array") }

---------------------------------------------------------------------------
(* Inputs *)

ChannelNames == {"positions", "cell", "energy"}

AllSystems == SeqsUpTo([size : {1}, native : BOOLEAN], MaxSystems)

PlainSystems == SeqsUpTo([size : 1..MaxAtoms, native : {FALSE}], MaxSystems) \ { << >> }

SampleLayouts == { << "structure", "center" >>, << "center", "structure" >>, << "center" >> }

ShapeTails == { << 1 >>, << 1, 2 >> }

RowPatterns == {"pairs", "reversed", "first"}

Defects == { "positions_names_order", "positions_names_count", "cell_names",
             "samples_differ", "sample_out_of_range", "jacobian_short",
             "structure_out_of_range", "atom_out_of_range" }

PlainCalculators ==
    [ nblocks : 0..MaxBlocks, tail : {<< 1 >>}, names : {<< "structure", "center" >>},
      rows : {"pairs"}, seed : {0}, defect : {"none"} ]

RichCalculators ==
    [ nblocks : 0..MaxBlocks, tail : ShapeTails, names : SampleLayouts,
      rows : RowPatterns, seed : {0}, defect : {"none"} ]

DefectiveCalculators ==
    [ nblocks : 1..MaxBlocks, tail : {<< 1, 2 >>},
      names : {<< "center", "structure" >>, << "center" >>},
      rows : {"pairs"}, seed : {1}, defect : Defects ]

\* every way of calling forward that the model explores
ForwardInputs ==
    [ systems : AllSystems, positions : BOOLEAN, cells : BOOLEAN,
      forward_gradients : SeqsUpTo(ChannelNames, MaxRequested),
      calculator : PlainCalculators ]
    \cup
    [ systems : PlainSystems, positions : BOOLEAN, cells : BOOLEAN,
      forward_gradients : {<< >>},
      calculator : RichCalculators \cup DefectiveCalculators ]

---------------------------------------------------------------------------
(* The state machine *)

NotCalled == [status |-> "not_called", what |-> "", slots |-> << >>]

Init ==
    /\ pc = "start"
    /\ all_positions = [requires_grad |-> FALSE, sizes |-> << 0, 3 >>]
    /\ all_cells = [requires_grad |-> FALSE, sizes |-> << 0, 3, 3 >>]
    /\ systems = << >>
    /\ forward_gradients = << >>
    /\ calculator = [nblocks |-> 0, tail |-> << 1 >>, names |-> << "structure", "center" >>,
                     rows |-> "pairs", seed |-> 0, defect |-> "none"]
    /\ calls = << >>
    /\ descriptor = NoMap
    /\ ctx = NoContext
    /\ tensor_map = NoMap
    /\ values_by_block = << >>
    /\ fwd = Failed("not_called", "")
    /\ grad_outputs = << >>
    /\ bwd = NotCalled

Forward ==
    /\ pc = "start"
    /\ \E in \in ForwardInputs :
        LET positions == [requires_grad |-> in.positions,
                          sizes |-> << TotalAtoms(in.systems), 3 >>]
            cells     == [requires_grad |-> in.cells,
                          sizes |-> << Len(in.systems), 3, 3 >>]
        IN  /\ all_positions' = positions
            /\ all_cells' = cells
            /\ systems' = in.systems
            /\ forward_gradients' = in.forward_gradients
            /\ calculator' = in.calculator
            /\ \E r \in forward(positions, cells, in.calculator, in.systems,
                                in.forward_gradients, tensor_map) :
                /\ calls' = r.calls
                /\ descriptor' = r.descriptor
                /\ ctx' = r.ctx
                /\ tensor_map' = r.tensor_map
                /\ values_by_block' = r.values_by_block
                /\ fwd' = r.fwd
    /\ pc' = "forward_done"
    /\ UNCHANGED << grad_outputs, bwd >>

\* the adjoint of block k: the shape of the block's values
Adjoint(desc, k) ==
    LET sizes == IF k <= Len(desc.blocks) THEN desc.blocks[k].sizes ELSE << 1, 1 >>
    IN  [ sizes |-> sizes,
          data  |-> [j \in 1..SeqProduct(sizes) |-> ((j + k) % 3) + 1] ]

Backward ==
    /\ pc = "forward_done"
    /\ fwd.status = "returned"
    /\ \E n \in 0..MaxBlocks :
        /\ grad_outputs' = [k \in 1..n |-> Adjoint(descriptor, k)]
        /\ bwd' \in backward(ctx, grad_outputs')
    /\ pc' = "backward_done"
    /\ UNCHANGED << all_positions, all_cells, systems, forward_gradients, calculator,
                    calls, descriptor, ctx, tensor_map, values_by_block, fwd >>

Next == Forward \/ Backward

Spec == Init /\ [][Next]_vars

---------------------------------------------------------------------------
(* Vocabulary of the properties *)

ForwardReturned == pc # "start" /\ fwd.status = "returned"

BackwardEnded == pc = "backward_done"

BackwardReturned == BackwardEnded /\ bwd.status = "returned"

\* backward received one adjoint per output block, and there is a block
OneAdjointPerBlock ==
    Len(grad_outputs) = Len(descriptor.blocks) /\ Len(grad_outputs) >= 1

NumberOfAtoms == SeqSum([k \in 1..Len(systems) |-> systems[k].size])

\* sum of the atom counts of the structures before s (0-based)
Offset(s) == SeqSum([k \in 1..s |-> systems[k].size])

\* size of the flattened component-property axis of block b (1-based)
FlatAxis(b) == SeqProduct(Tail(grad_outputs[b].sizes))

\* rows of the adjoint of block b
AdjointRows(b) == Head(grad_outputs[b].sizes)

\* the positions pass reads and writes existing entries only
PositionsInRange ==
    \A b \in DOMAIN ctx.positions_gradients :
        LET block == ctx.positions_gradients[b]
        IN  /\ Len(block.values) >= Len(block.samples.values) * 3 * FlatAxis(b)
            /\ \A r \in DOMAIN block.samples.values :
                LET row == block.samples.values[r]
                IN  /\ Len(row) = 3
                    /\ row[1] \in 0..(AdjointRows(b) - 1)
                    /\ row[2] \in 0..(Len(systems) - 1)
                    /\ Offset(row[2]) + row[3] \in 0..(NumberOfAtoms - 1)

\* the dot product of claim C1 for row r (1-based) of block b, direction d
PositionsTerm(b, r, d) ==
    LET block == ctx.positions_gradients[b]
        D     == FlatAxis(b)
        row   == block.samples.values[r]
    IN  SeqSum([c \in 1..D |->
            block.values[((r - 1) * 3 + d) * D + c]
            * grad_outputs[b].data[row[1] * D + c]])

ExpectedPositions(g, d) ==
    SeqSum([b \in 1..Len(ctx.positions_gradients) |->
        LET rows == ctx.positions_gradients[b].samples.values
        IN  SeqSum([r \in 1..Len(rows) |->
                IF Offset(rows[r][2]) + rows[r][3] = g
                THEN PositionsTerm(b, r, d) ELSE 0])])

\* C1: the positions gradient returned by backward is the scatter-sum of the
\* dot products of the saved Jacobian rows with the adjoint rows, at
\* structure_offsets[structure] + atom, and has the shape of the positions
C1_PositionsGradient ==
    (BackwardReturned /\ all_positions.requires_grad /\ OneAdjointPerBlock
        /\ PositionsInRange)
    => LET gradient == bwd.slots[1]
       IN  /\ gradient.defined
           /\ gradient.sizes = all_positions.sizes
           /\ Len(gradient.data) = NumberOfAtoms * 3
           /\ \A g \in 0..(NumberOfAtoms - 1), d \in 0..2 :
                gradient.data[g * 3 + d + 1] = ExpectedPositions(g, d)

\* two blocks, two structures, several rows on one atom, a non-zero result
C1_Witness ==
    /\ BackwardReturned /\ all_positions.requires_grad /\ OneAdjointPerBlock
    /\ PositionsInRange
    /\ Len(grad_outputs) >= 2
    /\ Len(systems) >= 2
    /\ FlatAxis(1) >= 2
    /\ \E r1, r2 \in DOMAIN ctx.positions_gradients[1].samples.values :
        /\ r1 # r2
        /\ ctx.positions_gradients[1].samples.values[r1][2] = 1
        /\ ctx.positions_gradients[1].samples.values[r1][2]
            = ctx.positions_gradients[1].samples.values[r2][2]
        /\ ctx.positions_gradients[1].samples.values[r1][3]
            = ctx.positions_gradients[1].samples.values[r2][3]
    /\ \E k \in DOMAIN bwd.slots[1].data : bwd.slots[1].data[k] # 0

\* the structure of local sample `sample` (0-based) of block b, read in the
\* `structure` column of the block's saved samples
StructureOf(b, sample) ==
    LET labels == ctx.samples[b]
        column == CHOOSE c \in DOMAIN labels.names : labels.names[c] = "structure"
    IN  labels.values[sample + 1][column]

\* the cell pass reads and writes existing entries only
CellInRange ==
    \A b \in DOMAIN ctx.cell_gradients :
        LET block == ctx.cell_gradients[b]
        IN  /\ Len(block.values) >= Len(block.samples.values) * 9 * FlatAxis(b)
            /\ \A r \in DOMAIN block.samples.values :
                /\ block.samples.values[r][1] \in 0..(AdjointRows(b) - 1)
                /\ block.samples.values[r][1] \in 0..(Len(ctx.samples[b].values) - 1)
                /\ StructureOf(b, block.samples.values[r][1]) \in 0..(Len(systems) - 1)

HasStructureColumn(labels) == \E c \in DOMAIN labels.names : labels.names[c] = "structure"

\* the dot product of claim C2 for row r (1-based) of block b, directions i, j
CellTerm(b, r, i, j) ==
    LET block  == ctx.cell_gradients[b]
        D      == FlatAxis(b)
        sample == block.samples.values[r][1]
        offset == ((r - 1) * 3 + j) * 3 + i
    IN  SeqSum([c \in 1..D |->
            block.values[offset * D + c] * grad_outputs[b].data[sample * D + c]])

ExpectedCell(s, i, j) ==
    SeqSum([b \in 1..Len(ctx.cell_gradients) |->
        LET rows == ctx.cell_gradients[b].samples.values
        IN  SeqSum([r \in 1..Len(rows) |->
                IF StructureOf(b, rows[r][1]) = s THEN CellTerm(b, r, i, j) ELSE 0])])

\* C2: the cell gradient returned by backward is, at [s][i][j], the sum over
\* the gradient rows owned by structure s of the dot products of the saved
\* Jacobian entry at offset (r*3 + j)*3 + i with the adjoint rows
C2_CellGradient ==
    (BackwardReturned /\ all_cells.requires_grad /\ OneAdjointPerBlock /\ CellInRange)
    => LET gradient == bwd.slots[2]
       IN  /\ gradient.defined
           /\ gradient.sizes = all_cells.sizes
           /\ Len(gradient.data) = Len(systems) * 9
           /\ \A s \in 0..(Len(systems) - 1), i \in 0..2, j \in 0..2 :
                gradient.data[(s * 3 + i) * 3 + j + 1] = ExpectedCell(s, i, j)

\* two blocks, two structures, a structure column that is not the first one,
\* a matrix that is not symmetric
C2_Witness ==
    /\ BackwardReturned /\ all_cells.requires_grad /\ OneAdjointPerBlock /\ CellInRange
    /\ Len(grad_outputs) >= 2
    /\ Len(systems) >= 2
    /\ FlatAxis(1) >= 2
    /\ ctx.samples[1].names = << "center", "structure" >>
    /\ \E r \in DOMAIN ctx.cell_gradients[1].samples.values :
        ctx.cell_gradients[1].samples.values[r][1] # r - 1
    /\ bwd.slots[2].data[(1 * 3 + 0) * 3 + 1 + 1] # bwd.slots[2].data[(1 * 3 + 1) * 3 + 0 + 1]

Requested(p) == \E k \in DOMAIN forward_gradients : forward_gradients[k] = p

Passed(p) == \E k \in DOMAIN calls[1].gradients : calls[1].gradients[k] = p

\* C3: a successful forward invokes the calculator once, with exactly the
\* requested channels and the channels whose tensor requires gradients, each once
C3_ChannelsPassed ==
    ForwardReturned
    => /\ Len(calls) = 1
       /\ Passed("positions") <=> (Requested("positions") \/ all_positions.requires_grad)
       /\ Passed("cell") <=> (Requested("cell") \/ all_cells.requires_grad)
       /\ \A j, k \in DOMAIN calls[1].gradients :
            /\ calls[1].gradients[k] \in Channels
            /\ (j # k => calls[1].gradients[j] # calls[1].gradients[k])

\* a channel requested twice, the other one computed for its tensor only
C3_Witness ==
    /\ ForwardReturned
    /\ forward_gradients = << "cell", "cell" >>
    /\ all_positions.requires_grad /\ ~all_cells.requires_grad
    /\ calls = << [gradients |-> << "positions", "cell" >>, use_native_system |-> TRUE] >>

EveryComputedRequested == \A p \in Channels : Passed(p) => Requested(p)

\* C4: the handle holds the calculator's output itself when every computed
\* channel was requested, and otherwise fresh blocks with the values and
\* exactly the requested gradient sub-blocks
C4_VisibleCollection ==
    ForwardReturned
    => IF EveryComputedRequested
       THEN tensor_map = descriptor
       ELSE /\ tensor_map.id # descriptor.id
            /\ Len(tensor_map.blocks) = Len(descriptor.blocks)
            /\ \A k \in DOMAIN tensor_map.blocks :
                /\ tensor_map.blocks[k].id # descriptor.blocks[k].id
                /\ tensor_map.blocks[k].values = descriptor.blocks[k].values
                /\ tensor_map.blocks[k].samples = descriptor.blocks[k].samples
                /\ DOMAIN tensor_map.blocks[k].gradients
                    = { p \in Channels : Requested(p) }
                /\ \A p \in DOMAIN tensor_map.blocks[k].gradients :
                    tensor_map.blocks[k].gradients[p] = descriptor.blocks[k].gradients[p]

\* forward_gradients = ["positions"] with a cell tensor that requires gradients
C4_Witness ==
    /\ ForwardReturned
    /\ forward_gradients = << "positions" >>
    /\ all_cells.requires_grad
    /\ Len(tensor_map.blocks) >= 1
    /\ DOMAIN descriptor.blocks[1].gradients = {"positions", "cell"}
    /\ DOMAIN tensor_map.blocks[1].gradients = {"positions"}

InvalidArguments ==
    \/ \E k \in DOMAIN forward_gradients : forward_gradients[k] \notin Channels
    \/ \E j, k \in DOMAIN systems : systems[j].native # systems[k].native

\* C5: an invalid channel name or structures that disagree on neighbor lists
\* make forward fail with an invalid-argument error, the calculator not
\* invoked, nothing saved, the handle as it was
C5_InvalidArgumentsLeaveNothing ==
    /\ (pc # "start" /\ InvalidArguments) => fwd.status = "ValueError"
    /\ (pc # "start" /\ fwd.status = "ValueError")
        => /\ InvalidArguments
           /\ calls = << >>
           /\ ctx = NoContext
           /\ tensor_map = NoMap
           /\ values_by_block = << >>

\* valid names, a tensor that requires gradients, structures that disagree
C5_Witness ==
    /\ pc # "start"
    /\ fwd.status = "ValueError"
    /\ fwd.what = "all_systems_use_native"
    /\ forward_gradients = << "positions" >>
    /\ all_cells.requires_grad
    /\ calls = << >>

NoStructureColumn ==
    /\ ctx.samples # << >>
    /\ \A k \in DOMAIN ctx.samples : ~HasStructureColumn(ctx.samples[k])

\* the positions pass stops the call before the cell pass starts
PositionsPassStops ==
    /\ all_positions.requires_grad
    /\ \/ ~PositionsInRange
       \/ \E b \in DOMAIN ctx.positions_gradients :
            ctx.positions_gradients[b].samples.names # << "sample", "structure", "atom" >>

\* C6 as stated, for saved positions data whose indices are all in range:
\* without a `structure` column and with a cell tensor that requires
\* gradients, backward fails with the invalid-argument error
C6_MissingStructureIsInvalidArgument ==
    (BackwardEnded /\ all_cells.requires_grad /\ NoStructureColumn /\ OneAdjointPerBlock
        /\ (all_positions.requires_grad => PositionsInRange))
    => bwd.status = "ValueError" /\ bwd.slots = << >>

\* C6 as amended: backward returns nothing, and the error is the
\* invalid-argument one unless the positions pass has stopped the call first
C6_MissingStructureFails ==
    (BackwardEnded /\ all_cells.requires_grad /\ NoStructureColumn /\ OneAdjointPerBlock)
    => /\ bwd.status # "returned"
       /\ bwd.slots = << >>
       /\ ~PositionsPassStops => bwd.status = "ValueError"
       /\ bwd.status \in {"ValueError", "runtime_error", "crash"}
       /\ bwd.status = "runtime_error" => bwd.what = "positions samples names"

\* the positions gradient was accumulated, then the cell pass threw
C6_Witness ==
    /\ BackwardEnded /\ all_cells.requires_grad /\ NoStructureColumn /\ OneAdjointPerBlock
    /\ all_positions.requires_grad
    /\ ~PositionsPassStops
    /\ \E b \in DOMAIN ctx.positions_gradients :
        ctx.positions_gradients[b].samples.values # << >>
    /\ bwd.status = "ValueError"
    /\ bwd.slots = << >>

\* C7: backward returns six slots, the last four never a gradient, the
\* positions (cell) slot a gradient exactly when there is an adjoint and the
\* positions (cell) tensor required gradients
C7_ReturnedSlots ==
    BackwardReturned
    => /\ Len(bwd.slots) = 6
       /\ \A k \in 3..6 : bwd.slots[k] = NoGradient
       /\ bwd.slots[1].defined <=> (Len(grad_outputs) >= 1 /\ all_positions.requires_grad)
       /\ bwd.slots[2].defined <=> (Len(grad_outputs) >= 1 /\ all_cells.requires_grad)
       /\ ~bwd.slots[1].defined => bwd.slots[1] = NoGradient
       /\ ~bwd.slots[2].defined => bwd.slots[2] = NoGradient

\* no adjoint at all although both tensors required gradients
C7_Witness ==
    /\ BackwardReturned
    /\ grad_outputs = << >>
    /\ all_positions.requires_grad /\ all_cells.requires_grad
    /\ Len(descriptor.blocks) >= 1
    /\ bwd.slots[1] = NoGradient /\ bwd.slots[2] = NoGradient

\* one of the breaches of the layout contract listed by claim C8
CountsDiffer ==
    \/ all_positions.requires_grad /\ Len(ctx.positions_gradients) # Len(grad_outputs)
    \/ all_cells.requires_grad /\ Len(ctx.cell_gradients) # Len(grad_outputs)
    \/ all_cells.requires_grad /\ Len(ctx.samples) # Len(grad_outputs)

NamesDiffer ==
    \/ \E b \in DOMAIN ctx.positions_gradients :
        ctx.positions_gradients[b].samples.names # << "sample", "structure", "atom" >>
    \/ \E b \in DOMAIN ctx.cell_gradients :
        ctx.cell_gradients[b].samples.names # << "sample" >>
    \/ \E b \in DOMAIN ctx.samples : ctx.samples[b].names # ctx.samples[1].names

RowsDiffer ==
    \/ \E b \in DOMAIN ctx.positions_gradients \cap DOMAIN grad_outputs :
        LET block == ctx.positions_gradients[b]
        IN  \/ Len(block.values) # Len(block.samples.values) * 3 * FlatAxis(b)
            \/ \E r \in DOMAIN block.samples.values :
                block.samples.values[r][1] \notin 0..(AdjointRows(b) - 1)
    \/ \E b \in DOMAIN ctx.cell_gradients \cap DOMAIN grad_outputs :
        LET block == ctx.cell_gradients[b]
        IN  \/ Len(block.values) # Len(block.samples.values) * 9 * FlatAxis(b)
            \/ \E r \in DOMAIN block.samples.values :
                block.samples.values[r][1] \notin 0..(AdjointRows(b) - 1)

\* C8 as stated, for calls that receive at least one adjoint: whenever the
\* saved data breaks its layout contract, backward does not return
C8_BrokenLayoutAborts ==
    (BackwardEnded /\ Len(grad_outputs) >= 1 /\ (CountsDiffer \/ NamesDiffer \/ RowsDiffer))
    => bwd.status # "returned" /\ bwd.slots = << >>

Saved(key) == key \in ctx.keys

\* the saved gradient sub-blocks of a channel: one per block, in block order
SavedInBlockOrder(saved, p) ==
    /\ Len(saved) = Len(descriptor.blocks)
    /\ \A k \in DOMAIN saved :
        /\ saved[k].values = descriptor.blocks[k].gradients[p].values
        /\ saved[k].samples = descriptor.blocks[k].gradients[p].samples

\* C9 as stated, for a call with structures and blocks: the context holds
\* the sub-blocks of every computed channel
C9_SavedWhenComputed ==
    (ForwardReturned /\ systems # << >> /\ descriptor.blocks # << >>)
    => /\ Saved("structures_start")
       /\ Passed("positions")
            => Saved("positions_gradients")
               /\ SavedInBlockOrder(ctx.positions_gradients, "positions")
       /\ Passed("cell")
            => Saved("cell_gradients") /\ Saved("samples")
               /\ SavedInBlockOrder(ctx.cell_gradients, "cell")

\* C9 as amended: the context holds structure_offsets, and the sub-blocks
\* (and the samples, for the cell) of every channel whose tensor requires
\* gradients, one per block and in block order
C9_SavedWhenRequired ==
    ForwardReturned
    => /\ Saved("structures_start")
       /\ ctx.structures_start = [s \in 1..Len(systems) |-> Offset(s - 1)]
       /\ all_positions.requires_grad
            => Saved("positions_gradients")
               /\ SavedInBlockOrder(ctx.positions_gradients, "positions")
       /\ all_cells.requires_grad
            => /\ Saved("cell_gradients") /\ Saved("samples")
               /\ SavedInBlockOrder(ctx.cell_gradients, "cell")
               /\ ctx.samples = [k \in 1..Len(descriptor.blocks) |->
                                    descriptor.blocks[k].samples]

\* both tensors require gradients, two blocks whose sub-blocks differ
C9_Witness ==
    /\ ForwardReturned
    /\ all_positions.requires_grad /\ all_cells.requires_grad
    /\ Len(descriptor.blocks) >= 2
    /\ Len(systems) >= 2
    /\ ctx.positions_gradients[1].values # ctx.positions_gradients[2].values
    /\ ctx.cell_gradients[1].values # ctx.cell_gradients[2].values

Context == Obj("ctx", 0, "")

BlockReferences(block) ==
    { << block.id, block.values >>, << block.id, Obj("samples", block.id.i, "") >> }
    \cup { << block.id, block.gradients[p].id >> : p \in DOMAIN block.gradients }
    \cup UNION { { << block.gradients[p].id, o >> : o \in block.gradients[p].refs }
                 : p \in DOMAIN block.gradients }

MapReferences(map) ==
    { << map.id, map.blocks[k].id >> : k \in DOMAIN map.blocks }
    \cup UNION { BlockReferences(map.blocks[k]) : k \in DOMAIN map.blocks }

SavedBlocks == Range(ctx.positions_gradients) \cup Range(ctx.cell_gradients)

\* the strong references between the objects alive after forward; a value
\* tensor returned by forward refers to the context through its grad_fn
References ==
    MapReferences(descriptor) \cup MapReferences(tensor_map)
    \cup { << v, Context >> : v \in Range(values_by_block) }
    \cup { << Context, h.id >> : h \in SavedBlocks }
    \cup UNION { { << h.id, o >> : o \in h.refs } : h \in SavedBlocks }
    \cup { << Context, Obj("samples", k - 1, "") >> : k \in DOMAIN ctx.samples }
    \cup { << Context, Obj("saved_variable", k, "") >> : k \in DOMAIN ctx.saved_variables }

RECURSIVE ReachableFrom(_, _)
ReachableFrom(objects, references) ==
    LET more == objects \cup { e[2] : e \in { x \in references : x[1] \in objects } }
    IN  IF more = objects THEN objects ELSE ReachableFrom(more, references)

HeldByContext ==
    ReachableFrom({ e[2] : e \in { x \in References : x[1] = Context } }, References)

OutputObjects ==
    { descriptor.id, tensor_map.id }
    \cup { descriptor.blocks[k].id : k \in DOMAIN descriptor.blocks }
    \cup { tensor_map.blocks[k].id : k \in DOMAIN tensor_map.blocks }
    \cup { descriptor.blocks[k].values : k \in DOMAIN descriptor.blocks }

\* C10: nothing the context holds is, or refers to, the output collection,
\* its blocks or the value tensors, so the context is not on a cycle
C10_NoReferenceCycle ==
    pc # "start"
    => /\ HeldByContext \cap OutputObjects = {}
       /\ Context \notin HeldByContext

\* a filtered copy was exposed while both channels were saved
C10_Witness ==
    /\ ForwardReturned
    /\ all_positions.requires_grad /\ all_cells.requires_grad
    /\ forward_gradients = << "cell" >>
    /\ Len(values_by_block) >= 2
    /\ tensor_map.id # descriptor.id
    /\ Cardinality(HeldByContext) >= 8

====
